---- MODULE Spec2Model ----
(***************************************************************************)
(* State-machine model of security_manager::CryptoManagerImpl              *)
(* (src/components/security_manager/src/crypto_manager_impl.cc).           *)
(*                                                                         *)
(* The process-wide state is the static counter instance_count_ and the    *)
(* tables of the cryptographic engine; every manager instance has the      *)
(* fields context_ and mode_.  Contexts (SSL_CTX) and channels (SSL wrapped*)
(* in SSLContextImpl) live in two heaps indexed by handles; handle 0 is    *)
(* the NULL pointer.  The engine's calls are modelled by their interface:  *)
(* what the call is applied to and what it returns.  A call the language   *)
(* leaves undefined (a NULL or dangling SSL_CTX handed to the engine) is a *)
(* choice among the outcomes a build can produce.                          *)
(***************************************************************************)
EXTENDS Integers, Sequences, FiniteSets, TLC

\* ------------------------------------------------------------- bounds
Managers == {"m1", "m2"}
\* The number of calls made on the managers in one run of the process.
MaxCalls == 4

NULL == 0
CtxIds == 1..MaxCalls
ChanIds == 1..MaxCalls

\* ------------------------------------------------------------- inputs
Modes == {"CLIENT", "SERVER"}
Protocols == {"SSLv3", "TLSv1_1", "TLSv1_2", "Unknown"}
CertFiles == {"", "bad.pem", "cert.pem"}
KeyFiles == {"", "bad.key", "other.key", "cert.key"}
CipherLists == {"", "bogus", "HIGH"}
\* What an engine call does with a NULL SSL_CTX: it dereferences it and the
\* process is killed, or it fails before the dereference and answers 0.
NullOutcomes == {"crash", "zero"}
\* What an engine call does with an SSL_CTX already freed: the process is killed,
\* or the call reads the stale object and answers 0 or not 0.
DanglingOutcomes == {"crash", "zero", "nonzero"}

VARIABLES
  instance_count_,  \* static int CryptoManagerImpl::instance_count_
  engine,           \* the engine-wide tables: loaded, and how often loaded / freed
  legacy_openssl,   \* OPENSSL_VERSION_NUMBER < 0x1000100f in this build
  mgr,              \* per manager: context_, mode_ and what was called on it
  calls,            \* how many calls were made so far
  ctx,              \* heap of SSL_CTX objects
  chan,             \* heap of channels (SSL + SSLContextImpl)
  crashed,          \* the process was killed by an undefined call
  last,             \* the call that produced this state, and what it returned
  race              \* calls of two threads in progress: where each one stands

vars ==
  <<instance_count_, engine, legacy_openssl, mgr, calls, ctx, chan, crashed, last,
    race>>

\* --------------------------------------------------- engine interface
\* alloc: SSL_CTX_new returned it; frees: how often SSL_CTX_free was called on
\* it; applied: what the engine calls of Init left on it.
NoCtx == [alloc |-> FALSE, frees |-> 0, applied |-> <<>>]
NoChan == [state |-> "none", ctx |-> NULL, dir |-> "none"]
\* The arguments of an Init call besides mode and protocol.
NoArgs == [cert |-> "none", key |-> "none", ciphers |-> "none",
           verify_peer |-> FALSE]
\* The record of one Init call's engine calls; NoTrace when none is kept.
NoTrace == [protocol |-> "none", args |-> NoArgs, steps |-> <<>>,
            applied |-> <<>>]
\* No call is in progress.  at: the statement each manager's thread executes
\* next; tmp: the value of instance_count_ it read; open: the managers whose
\* Init returned and whose Finish did not; overlapped: a call ran while a call
\* of the other thread was in progress; reboot: the engine was bootstrapped
\* while it was loaded.
NoRace == [at |-> [m \in Managers |-> "idle"], tmp |-> [m \in Managers |-> 0],
           open |-> {}, overlapped |-> FALSE, reboot |-> FALSE]
\* op, m: the call and its manager; result: what it returned ("crash": it did
\* not return); handle: the channel returned; mode, resolved, allocated: of an
\* Init call, the role asked for, whether the switch resolved a method and
\* whether SSL_CTX_new returned a context.
NoCall == [op |-> "none", m |-> "none", result |-> "none", handle |-> NULL,
           mode |-> "none", resolved |-> FALSE, allocated |-> FALSE,
           trace |-> NoTrace]

\* SSL_CTX_use_certificate_file succeeds
CertLoads(cert_filename) == cert_filename = "cert.pem"
\* SSL_CTX_use_PrivateKey_file succeeds
KeyLoads(key_filename) == key_filename \in {"other.key", "cert.key"}
\* SSL_CTX_check_private_key succeeds
KeyMatches(cert_filename, key_filename) ==
  cert_filename = "cert.pem" /\ key_filename = "cert.key"
\* SSL_CTX_set_cipher_list succeeds
CiphersAccepted(ciphers_list) == ciphers_list = "HIGH"

\* The switch on protocol reaches a `break` (a method is resolved).
ProtocolResolved(protocol, legacy) ==
  \/ protocol = "SSLv3"
  \/ protocol \in {"TLSv1_1", "TLSv1_2"} /\ ~legacy

\* The handles SSL_CTX_new / SSL_new hand out next.
NextCtx == Cardinality({c \in CtxIds : ctx[c].alloc}) + 1
NextChan == Cardinality({h \in ChanIds : chan[h].state # "none"}) + 1

\* The channels CreateSSLContext returned that were not released yet.
LiveChans == {h \in ChanIds : chan[h].state = "live"}
\* Finish called SSL_CTX_free on context c (line 142).
Freed(c) == c \in CtxIds /\ ctx[c].alloc /\ ctx[c].frees > 0

\* ------------------------------------------------- CryptoManagerImpl::Init
\* Mutant: the test is `instance_count_ <= 0`.
NeedsBootstrap_NotPositive(count) == count <= 0
\* Mutant: the test of the counter is left out.
NeedsBootstrap_Always(count) == TRUE
\* `if (instance_count_ == 0)`: the engine is bootstrapped by this call.
NeedsBootstrap(count) == count = 0
\* Mutant: the increment is left out.
CountAfterInit_Missing(count) == count
\* `instance_count_++`
CountAfterInit(count) == count + 1
\* `--instance_count_`
CountAfterFinish(count) == count - 1
\* Mutant: `instance_count_-- == 0`, the test sees the value before the decrement.
FreesEngine_PostDecrement(count_after) == count_after + 1 = 0
\* `if (--instance_count_ == 0)`: the engine is freed by this call.
FreesEngine(count_after) == count_after = 0

\* One engine call of Init: `name` is the step, `real` what the engine answers
\* on a context that exists, `checked` whether Init tests the answer and returns
\* false on 0, `item` what a successful call leaves on the context.
Call(name, real, checked, item) ==
  [name |-> name, real |-> real, checked |-> checked, item |-> item]

\* Mutant: the key is loaded but never checked against the certificate.
InitPlan_NoMatchCheck(protocol, cert_filename, key_filename, ciphers_list, verify_peer) ==
  (IF protocol = "SSLv3"
     THEN <<Call("options", TRUE, FALSE, "no_sslv2")>> ELSE <<>>)
  \o (IF cert_filename # ""
        THEN <<Call("cert", CertLoads(cert_filename), TRUE, "cert")>>
             \o (IF key_filename # ""
                   THEN <<Call("key", KeyLoads(key_filename), TRUE, "key")>>
                   ELSE <<>>)
        ELSE <<>>)
  \o <<Call("cipher", CiphersAccepted(ciphers_list), TRUE, "ciphers")>>
  \o <<Call("verify", TRUE, FALSE,
            IF verify_peer THEN "verify_peer" ELSE "verify_none")>>
\* Mutant: the key block is not nested in the certificate block.
InitPlan_KeyWithoutCert(protocol, cert_filename, key_filename, ciphers_list, verify_peer) ==
  (IF protocol = "SSLv3"
     THEN <<Call("options", TRUE, FALSE, "no_sslv2")>> ELSE <<>>)
  \o (IF cert_filename # ""
        THEN <<Call("cert", CertLoads(cert_filename), TRUE, "cert")>>
        ELSE <<>>)
  \o (IF key_filename # ""
        THEN <<Call("key", KeyLoads(key_filename), TRUE, "key"),
               Call("check", KeyMatches(cert_filename, key_filename),
                    TRUE, "checked")>>
        ELSE <<>>)
  \o <<Call("cipher", CiphersAccepted(ciphers_list), TRUE, "ciphers")>>
  \o <<Call("verify", TRUE, FALSE,
            IF verify_peer THEN "verify_peer" ELSE "verify_none")>>
\* The engine calls Init makes after SSL_CTX_new, in program order, when none of
\* them fails: lines 106-136.
InitPlan(protocol, cert_filename, key_filename, ciphers_list, verify_peer) ==
  (IF protocol = "SSLv3"
     THEN <<Call("options", TRUE, FALSE, "no_sslv2")>> ELSE <<>>)
  \o (IF cert_filename # ""
        THEN <<Call("cert", CertLoads(cert_filename), TRUE, "cert")>>
             \o (IF key_filename # ""
                   THEN <<Call("key", KeyLoads(key_filename), TRUE, "key"),
                          Call("check", KeyMatches(cert_filename, key_filename),
                               TRUE, "checked")>>
                   ELSE <<>>)
        ELSE <<>>)
  \o <<Call("cipher", CiphersAccepted(ciphers_list), TRUE, "ciphers")>>
  \o <<Call("verify", TRUE, FALSE,
            IF verify_peer THEN "verify_peer" ELSE "verify_none")>>

\* What one engine call answers: on an allocated context the engine's answer,
\* on NULL whatever the undefined call produces.
Answer(call, has_ctx, ub) ==
  IF has_ctx THEN (IF call.real THEN "nonzero" ELSE "zero") ELSE ub

\* Lines 106-138 from call i of the plan on: the calls made, what they left on
\* the context, and what Init returns.
RECURSIVE RunPlan(_, _, _, _, _)
RunPlan(plan, i, has_ctx, ub, acc) ==
  IF i > Len(plan)
    THEN [acc EXCEPT !.result = "true"]
    ELSE LET call == plan[i]
             ans == Answer(call, has_ctx, ub)
             made == [acc EXCEPT !.trace.steps = Append(@, call.name)]
         IN  IF ans = "crash"
               THEN [made EXCEPT !.result = "crash"]
               ELSE IF call.checked /\ ans = "zero"
                 THEN [made EXCEPT !.result = "false"]
                 ELSE RunPlan(plan, i + 1, has_ctx, ub,
                        IF has_ctx /\ ans = "nonzero"
                          THEN [made EXCEPT !.trace.applied = Append(@, call.item)]
                          ELSE made)

\* Lines 66-138: the run of Init after the counter was incremented.
\* alloc_ok: SSL_CTX_new returns an object; ub: what a call on NULL produces.
RunInit(mode, protocol, cert, key, ciphers, verify_peer, legacy, alloc_ok, ub) ==
  LET start == [mode |-> mode, result |-> "false",
                resolved |-> FALSE, allocated |-> FALSE,
                trace |-> [protocol |-> protocol,
                           args |-> [cert |-> cert, key |-> key,
                                     ciphers |-> ciphers,
                                     verify_peer |-> verify_peer],
                           steps |-> <<"protocol">>, applied |-> <<>>]]
  IN  IF ~ProtocolResolved(protocol, legacy)
        THEN start
        ELSE RunPlan(InitPlan(protocol, cert, key, ciphers, verify_peer),
                     1, alloc_ok, ub,
                     [start EXCEPT !.trace.steps = <<"protocol", "alloc">>,
                                   !.resolved = TRUE,
                                   !.allocated = alloc_ok])

\* Every run of Init over its arguments and the engine's answers, per build.
InitRuns(legacy) ==
  {RunInit(mode, protocol, cert, key, ciphers, verify_peer, legacy, alloc_ok, ub) :
     mode \in Modes, protocol \in Protocols, cert \in CertFiles, key \in KeyFiles,
     ciphers \in CipherLists, verify_peer \in BOOLEAN, alloc_ok \in BOOLEAN,
     ub \in NullOutcomes}
InitRunsLegacy == InitRuns(TRUE)
InitRunsCurrent == InitRuns(FALSE)
\* A run without the record of its engine calls: what Init returned and whether
\* it resolved a method and allocated a context.
Outcome(run) == [run EXCEPT !.trace = NoTrace]
InitOutcomesLegacy == {Outcome(run) : run \in InitRunsLegacy}
InitOutcomesCurrent == {Outcome(run) : run \in InitRunsCurrent}

\* Mutant: a failing Init resets the context it configured so far.
ContextAfterInit_RolledBack(run) ==
  [alloc |-> TRUE, frees |-> 0,
   applied |-> IF run.result = "true" THEN run.trace.applied ELSE <<>>]
\* The context SSL_CTX_new returned, as Init leaves it: lines 105-136 undo
\* nothing on any return.
ContextAfterInit(run) ==
  [alloc |-> TRUE, frees |-> 0, applied |-> run.trace.applied]

\* bool CryptoManagerImpl::Init(mode, protocol, cert_filename, key_filename,
\*                              ciphers_list, verify_peer), lines 51-139
Init(m, run) ==
  LET c == IF run.allocated THEN NextCtx ELSE NULL IN
  /\ ~crashed
  /\ calls < MaxCalls
  /\ engine' = IF NeedsBootstrap(instance_count_)
                 THEN [engine EXCEPT !.loaded = TRUE, !.bootstraps = @ + 1]
                 ELSE engine
  /\ instance_count_' = CountAfterInit(instance_count_)
  /\ mgr' = [mgr EXCEPT ![m].mode_ = run.mode,
                        ![m].context_ = IF run.resolved THEN c ELSE @,
                        ![m].lastBuild = run.result,
                        ![m].resolved = @ \/ run.resolved]
  /\ calls' = calls + 1
  /\ ctx' = IF c # NULL
              THEN [ctx EXCEPT ![c] = ContextAfterInit(run)]
              ELSE ctx
  /\ crashed' = (run.result = "crash")
  /\ last' = [op |-> "Init", m |-> m, result |-> run.result, handle |-> NULL,
              mode |-> run.mode,
              resolved |-> run.resolved, allocated |-> run.allocated,
              trace |-> run.trace]
  /\ UNCHANGED <<legacy_openssl, chan, race>>

\* ------------------------------------------------ CryptoManagerImpl::Finish
\* void CryptoManagerImpl::Finish(), lines 141-147.  SSL_CTX_free(NULL) does
\* nothing; SSL_CTX_free of a context already freed is undefined (ub).
Finish(m, ub) ==
  LET c == mgr[m].context_
      dangling == c # NULL /\ Freed(c)
      dies == dangling /\ ub = "crash"
      after == CountAfterFinish(instance_count_)
  IN
  /\ ~crashed
  /\ calls < MaxCalls
  /\ ctx' = IF c # NULL
              THEN [ctx EXCEPT ![c].frees = @ + 1]
              ELSE ctx
  /\ crashed' = dies
  /\ instance_count_' = IF dies THEN instance_count_ ELSE after
  /\ engine' = IF ~dies /\ FreesEngine(after)
                 THEN [engine EXCEPT !.loaded = FALSE, !.frees = @ + 1]
                 ELSE engine
  /\ mgr' = [mgr EXCEPT ![m].torn = TRUE]
  /\ calls' = calls + 1
  /\ last' = [NoCall EXCEPT !.op = "Finish", !.m = m,
                            !.result = IF dies THEN "crash" ELSE "void"]
  /\ UNCHANGED <<legacy_openssl, chan, race>>

\* -------------------------------------- CryptoManagerImpl::CreateSSLContext
\* Mutant: the NULL test is left out.
HasContext_Unchecked(context) == TRUE
\* `if (context_ == NULL) return NULL;`
HasContext(context) == context # NULL
\* Mutant: the two branches are swapped.
ChannelDir_Swapped(mode) == IF mode = "SERVER" THEN "connect" ELSE "accept"
\* `if (mode_ == SERVER) SSL_set_accept_state else SSL_set_connect_state`
ChannelDir(mode) == IF mode = "SERVER" THEN "accept" ELSE "connect"

\* SSLContext* CryptoManagerImpl::CreateSSLContext(), lines 149-165.
\* conn_ok: SSL_new returns an object; ub: what SSL_new does with a freed context.
CreateSSLContext(m, conn_ok, ub) ==
  LET c == mgr[m].context_
      dangling == HasContext(c) /\ Freed(c)
      dies == dangling /\ ub = "crash"
      minted == /\ HasContext(c)
                /\ IF dangling THEN ub = "nonzero" ELSE conn_ok
      h == IF minted THEN NextChan ELSE NULL
  IN
  /\ ~crashed
  /\ calls < MaxCalls
  /\ chan' = IF minted
               THEN [chan EXCEPT ![h] = [state |-> "live", ctx |-> c,
                                         dir |-> ChannelDir(mgr[m].mode_)]]
               ELSE chan
  /\ crashed' = dies
  /\ last' = [NoCall EXCEPT !.op = "CreateSSLContext", !.m = m, !.handle = h,
                            !.result = IF ~HasContext(c) THEN "null_context"
                                       ELSE IF dies THEN "crash"
                                       ELSE IF minted THEN "channel"
                                       ELSE "null_conn"]
  /\ calls' = calls + 1
  /\ UNCHANGED <<instance_count_, engine, legacy_openssl, mgr, ctx, race>>

\* ------------------------------------- CryptoManagerImpl::ReleaseSSLContext
\* The destructor `delete context` runs, ~SSLContextImpl, is defined in another
\* file of the repository: it destroys the channel's per-connection state and
\* nothing else.
DestroyChannel(ch) == [ch EXCEPT !.state = "released"]
\* Mutant: releasing a channel also frees the context it was minted from.
ReleaseSSLContext_FreesContext(h) ==
  /\ ~crashed
  /\ calls < MaxCalls
  /\ chan[h].state = "live"
  /\ chan' = [chan EXCEPT ![h] = DestroyChannel(@)]
  /\ ctx' = [ctx EXCEPT ![chan[h].ctx].frees = @ + 1]
  /\ last' = [NoCall EXCEPT !.op = "ReleaseSSLContext", !.handle = h,
                            !.result = "void"]
  /\ calls' = calls + 1
  /\ UNCHANGED <<instance_count_, engine, legacy_openssl, mgr, crashed, race>>
\* void CryptoManagerImpl::ReleaseSSLContext(SSLContext*), lines 167-169:
\* `delete context` on a channel CreateSSLContext returned and the caller owns.
ReleaseSSLContext(h) ==
  /\ ~crashed
  /\ calls < MaxCalls
  /\ chan[h].state = "live"
  /\ chan' = [chan EXCEPT ![h] = DestroyChannel(@)]
  /\ last' = [NoCall EXCEPT !.op = "ReleaseSSLContext", !.handle = h,
                            !.result = "void"]
  /\ calls' = calls + 1
  /\ UNCHANGED <<instance_count_, engine, legacy_openssl, mgr, ctx, crashed,
                 race>>

\* ---------------------------------------------------------- specification
\* `instance_count_ = 0` and the constructor, lines 44-49.
\* lastBuild: what the latest Init on it returned; resolved: some Init on it
\* reached SSL_CTX_new; torn: Finish was called on it.
NewManager == [context_ |-> NULL, mode_ |-> "CLIENT",
               lastBuild |-> "none", resolved |-> FALSE, torn |-> FALSE]

Init0 ==
  /\ instance_count_ = 0
  /\ engine = [loaded |-> FALSE, bootstraps |-> 0, frees |-> 0]
  /\ legacy_openssl \in BOOLEAN
  /\ mgr = [m \in Managers |-> NewManager]
  /\ calls = 0
  /\ ctx = [c \in CtxIds |-> NoCtx]
  /\ chan = [h \in ChanIds |-> NoChan]
  /\ crashed = FALSE
  /\ last = NoCall
  /\ race = NoRace

DoInit ==
  \E m \in Managers :
    \E run \in (IF legacy_openssl THEN InitOutcomesLegacy
                                   ELSE InitOutcomesCurrent) :
      Init(m, run)
DoFinish == \E m \in Managers, ub \in DanglingOutcomes : Finish(m, ub)
DoCreate ==
  \E m \in Managers, conn_ok \in BOOLEAN, ub \in DanglingOutcomes :
    CreateSSLContext(m, conn_ok, ub)
DoRelease == \E h \in ChanIds : ReleaseSSLContext(h)

Next == DoInit \/ DoFinish \/ DoCreate \/ DoRelease

Spec == Init0 /\ [][Next]_vars

\* The managers are built once each and then torn down once each: no Init on a
\* manager already built or after a Finish, no Finish on a manager not built or
\* already torn down.  Channels are minted and released in between.
Built(m) == mgr[m].lastBuild # "none"
BalancedInit ==
  \E m \in Managers :
    \E run \in (IF legacy_openssl THEN InitOutcomesLegacy
                                   ELSE InitOutcomesCurrent) :
      /\ ~Built(m)
      /\ \A x \in Managers : ~mgr[x].torn
      /\ Init(m, run)
BalancedFinish ==
  \E m \in Managers, ub \in DanglingOutcomes :
    /\ Built(m)
    /\ ~mgr[m].torn
    /\ Finish(m, ub)
NextBalanced == BalancedInit \/ BalancedFinish \/ DoCreate \/ DoRelease
SpecBalanced == Init0 /\ [][NextBalanced]_vars

\* The first call of the process is an Init, kept with the record of its engine
\* calls.
DoInitTraced ==
  \E m \in Managers :
    \E run \in (IF legacy_openssl THEN InitRunsLegacy ELSE InitRunsCurrent) :
      /\ calls = 0
      /\ Init(m, run)
SpecInit == Init0 /\ [][DoInitTraced]_vars

\* ---------------------------------------- Init and Finish on two threads
\* Init and Finish of the two managers run on two threads with no lock: the
\* statements of lines 58-64 and 141-147 that touch instance_count_ and the
\* engine are steps of their own, and `instance_count_++` / `--instance_count_`
\* on the plain int are a read and a write.  Each thread calls Init and Finish
\* on its manager in turn.
Overlap(m) == \E x \in Managers \ {m} : race.at[x] # "idle"
Step(m, to) ==
  [race EXCEPT !.at[m] = to, !.overlapped = @ \/ Overlap(m)]
\* `if (instance_count_ == 0)`, line 58
InitTest(m) ==
  /\ ~crashed
  /\ calls < MaxCalls
  /\ race.at[m] = "idle"
  /\ m \notin race.open
  /\ race' = Step(m, IF NeedsBootstrap(instance_count_)
                       THEN "bootstrap" ELSE "read_inc")
  /\ calls' = calls + 1
  /\ UNCHANGED <<instance_count_, engine, legacy_openssl, mgr, ctx, chan,
                 crashed, last>>
\* SSL_load_error_strings ... SSL_library_init, lines 59-62
InitBootstrap(m) ==
  /\ ~crashed
  /\ race.at[m] = "bootstrap"
  /\ engine' = [engine EXCEPT !.loaded = TRUE, !.bootstraps = @ + 1]
  /\ race' = [Step(m, "read_inc") EXCEPT !.reboot = @ \/ engine.loaded]
  /\ UNCHANGED <<instance_count_, legacy_openssl, mgr, calls, ctx, chan,
                 crashed, last>>
\* `instance_count_++`, line 64: the read
InitRead(m) ==
  /\ ~crashed
  /\ race.at[m] = "read_inc"
  /\ race' = [Step(m, "write_inc") EXCEPT !.tmp[m] = instance_count_]
  /\ UNCHANGED <<instance_count_, engine, legacy_openssl, mgr, calls, ctx,
                 chan, crashed, last>>
\* `instance_count_++`, line 64: the write
InitWrite(m) ==
  /\ ~crashed
  /\ race.at[m] = "write_inc"
  /\ instance_count_' = CountAfterInit(race.tmp[m])
  /\ race' = Step(m, "configure")
  /\ UNCHANGED <<engine, legacy_openssl, mgr, calls, ctx, chan, crashed, last>>
\* Lines 66-138, on the manager's own fields and context.
InitConfigure(m, run) ==
  LET c == IF run.allocated THEN NextCtx ELSE NULL IN
  /\ ~crashed
  /\ race.at[m] = "configure"
  /\ mgr' = [mgr EXCEPT ![m].mode_ = run.mode,
                        ![m].context_ = IF run.resolved THEN c ELSE @,
                        ![m].lastBuild = run.result,
                        ![m].resolved = @ \/ run.resolved]
  /\ ctx' = IF c # NULL
              THEN [ctx EXCEPT ![c] = ContextAfterInit(run)]
              ELSE ctx
  /\ crashed' = (run.result = "crash")
  /\ last' = [op |-> "Init", m |-> m, result |-> run.result, handle |-> NULL,
              mode |-> run.mode,
              resolved |-> run.resolved, allocated |-> run.allocated,
              trace |-> run.trace]
  /\ race' = [Step(m, "idle") EXCEPT !.open = @ \cup {m}]
  /\ UNCHANGED <<instance_count_, engine, legacy_openssl, calls, chan>>
\* `SSL_CTX_free(context_)`, line 142
FinishFreeContext(m, ub) ==
  LET c == mgr[m].context_
      dies == c # NULL /\ Freed(c) /\ ub = "crash"
  IN
  /\ ~crashed
  /\ calls < MaxCalls
  /\ race.at[m] = "idle"
  /\ m \in race.open
  /\ ctx' = IF c # NULL
              THEN [ctx EXCEPT ![c].frees = @ + 1]
              ELSE ctx
  /\ crashed' = dies
  /\ race' = Step(m, "read_dec")
  /\ calls' = calls + 1
  /\ UNCHANGED <<instance_count_, engine, legacy_openssl, mgr, chan, last>>
\* `--instance_count_`, line 143: the read
FinishRead(m) ==
  /\ ~crashed
  /\ race.at[m] = "read_dec"
  /\ race' = [Step(m, "write_dec") EXCEPT !.tmp[m] = instance_count_]
  /\ UNCHANGED <<instance_count_, engine, legacy_openssl, mgr, calls, ctx,
                 chan, crashed, last>>
\* Finish returns (line 147).
Returned(m) ==
  /\ mgr' = [mgr EXCEPT ![m].torn = TRUE]
  /\ last' = [NoCall EXCEPT !.op = "Finish", !.m = m, !.result = "void"]
\* `--instance_count_ == 0`, line 143: the write and the test of its value
FinishWrite(m) ==
  LET after == CountAfterFinish(race.tmp[m]) IN
  /\ ~crashed
  /\ race.at[m] = "write_dec"
  /\ instance_count_' = after
  /\ IF FreesEngine(after)
       THEN /\ race' = Step(m, "cleanup")
            /\ UNCHANGED <<mgr, last>>
       ELSE /\ race' = [Step(m, "idle") EXCEPT !.open = @ \ {m}]
            /\ Returned(m)
  /\ UNCHANGED <<engine, legacy_openssl, calls, ctx, chan, crashed>>
\* EVP_cleanup(); ERR_free_strings(), lines 144-145
FinishCleanup(m) ==
  /\ ~crashed
  /\ race.at[m] = "cleanup"
  /\ engine' = [engine EXCEPT !.loaded = FALSE, !.frees = @ + 1]
  /\ race' = [Step(m, "idle") EXCEPT !.open = @ \ {m}]
  /\ Returned(m)
  /\ UNCHANGED <<instance_count_, legacy_openssl, calls, ctx, chan, crashed>>

RaceInitTest == \E m \in Managers : InitTest(m)
RaceInitBootstrap == \E m \in Managers : InitBootstrap(m)
RaceInitRead == \E m \in Managers : InitRead(m)
RaceInitWrite == \E m \in Managers : InitWrite(m)
RaceInitConfigure ==
  \E m \in Managers :
    \E run \in (IF legacy_openssl THEN InitOutcomesLegacy
                                   ELSE InitOutcomesCurrent) :
      InitConfigure(m, run)
RaceFinishFreeContext ==
  \E m \in Managers, ub \in DanglingOutcomes : FinishFreeContext(m, ub)
RaceFinishRead == \E m \in Managers : FinishRead(m)
RaceFinishWrite == \E m \in Managers : FinishWrite(m)
RaceFinishCleanup == \E m \in Managers : FinishCleanup(m)
NextRace ==
  \/ RaceInitTest \/ RaceInitBootstrap \/ RaceInitRead \/ RaceInitWrite
  \/ RaceInitConfigure
  \/ RaceFinishFreeContext \/ RaceFinishRead \/ RaceFinishWrite
  \/ RaceFinishCleanup
SpecRace == Init0 /\ [][NextRace]_vars

\* No call is in progress.
Quiescent == \A m \in Managers : race.at[m] = "idle"

\* ------------------------------------------------------------------ claims
BuiltManagers == {m \in Managers : Built(m)}
TornManagers == {m \in Managers : mgr[m].torn}

\* C1: when every manager is built once and then torn down once (any order of
\* the teardowns, any outcome of the builds), the engine-wide resources are
\* freed exactly once, by the last teardown, and stay loaded while a built
\* manager is not yet torn down.
C1_EngineFreedOnceByLastTeardown ==
  /\ engine.frees = (IF BuiltManagers # {} /\ TornManagers = BuiltManagers
                       THEN 1 ELSE 0)
  /\ (BuiltManagers \ TornManagers # {}) => engine.loaded
C1_Witness ==
  /\ BuiltManagers = Managers
  /\ TornManagers = Managers
  /\ engine.frees = 1
  /\ ~engine.loaded

\* C2: LibraryRefCount (instance_count_) is never negative.
C2_RefCountNeverNegative == instance_count_ >= 0

\* C3 (as stated): an Init whose protocol is not resolved (unsupported by the
\* build, or unknown) leaves instance_count_, the engine, the manager's role and
\* the manager's context as they were.
C3_UnsupportedInitNoSideEffects ==
  [][(last'.op = "Init" /\ ~last'.resolved) =>
       /\ instance_count_' = instance_count_
       /\ engine' = engine
       /\ mgr'[last'.m].mode_ = mgr[last'.m].mode_
       /\ mgr'[last'.m].context_ = mgr[last'.m].context_]_vars
\* C3 (amended): such an Init returns false, allocates no context and leaves
\* every manager's context and every channel as they were; instance_count_ is one
\* greater, the engine is loaded if the counter was 0, and the manager's role is
\* the role asked for.
C3_UnsupportedInitKeepsContextOnly ==
  [][(last'.op = "Init" /\ ~last'.resolved) =>
       /\ last'.result = "false"
       /\ ~last'.allocated
       /\ ctx' = ctx
       /\ chan' = chan
       /\ \A m \in Managers : mgr'[m].context_ = mgr[m].context_
       /\ instance_count_' = instance_count_ + 1
       /\ engine'.loaded = (engine.loaded \/ instance_count_ = 0)
       /\ engine'.frees = engine.frees
       /\ mgr'[last'.m].mode_ = last'.mode]_vars
C3_Witness ==
  /\ last.op = "Init"
  /\ ~last.resolved
  /\ last.mode = "SERVER"
  /\ mgr[last.m].mode_ = "SERVER"
  /\ mgr[last.m].context_ = NULL
  /\ instance_count_ = 1
  /\ engine.loaded

\* C4: CreateSSLContext returns a channel only if the manager's latest Init
\* returned true.
C4_ChannelOnlyAfterSuccessfulInit ==
  (last.op = "CreateSSLContext" /\ last.result = "channel")
    => mgr[last.m].lastBuild = "true"

\* C5: once Finish was called on a manager, no later Init on it returns true and
\* no later CreateSSLContext on it returns a channel (it returns NULL).
C5_NothingLeavesTornDown ==
  [][\A m \in Managers :
       (mgr[m].torn /\ last'.m = m) =>
         /\ ~(last'.op = "Init" /\ last'.result = "true")
         /\ (last'.op = "CreateSSLContext" => last'.result = "null_context")]_vars

\* C6: every channel returned by CreateSSLContext and not yet released refers to
\* a context that SSL_CTX_free was not called on.
C6_ContextOutlivesChannels ==
  \A h \in LiveChans : ~Freed(chan[h].ctx)

\* C7: SSL_CTX_free is called at most once on a context, however often Finish is
\* called.
C7_ContextFreedAtMostOnce ==
  \A c \in CtxIds : ctx[c].frees <= 1

\* C8: when SSL_CTX_new returns NULL, Init returns false without making another
\* engine call on the missing context.
C8_AllocationFailureIsFatal ==
  (last.op = "Init" /\ last.resolved /\ ~last.allocated) =>
    /\ last.result = "false"
    /\ last.trace.steps = <<"protocol", "alloc">>

\* C9 (as stated): an Init that returned true, followed at once by
\* CreateSSLContext on the same manager, yields a channel whose direction is
\* accept exactly for SERVER and connect exactly for CLIENT.
C9_ChannelAfterInit ==
  [][(/\ last.op = "Init" /\ last.result = "true"
      /\ last'.op = "CreateSSLContext" /\ last'.m = last.m) =>
       /\ last'.result = "channel"
       /\ chan'[last'.handle].dir
            = (IF last.mode = "SERVER" THEN "accept" ELSE "connect")]_vars
\* C9 (amended): it yields such a channel, minted from the context that Init
\* allocated, or NULL by the second return (SSL_new returned NULL); it never
\* returns by the first return and never ends the process.
C9_ChannelAfterInitUnlessNoMemory ==
  [][(/\ last.op = "Init" /\ last.result = "true"
      /\ last'.op = "CreateSSLContext" /\ last'.m = last.m) =>
       /\ last.allocated
       /\ last'.result \in {"channel", "null_conn"}
       /\ last'.result = "null_conn" => (last'.handle = NULL /\ chan' = chan)
       /\ last'.result = "channel" =>
            /\ last'.handle \in ChanIds
            /\ chan[last'.handle].state = "none"
            /\ chan'[last'.handle].state = "live"
            /\ chan'[last'.handle].ctx = mgr[last.m].context_
            /\ ~Freed(chan'[last'.handle].ctx)
            /\ (chan'[last'.handle].dir = "accept") = (last.mode = "SERVER")
            /\ (chan'[last'.handle].dir = "connect") = (last.mode = "CLIENT")]_vars
C9_Witness ==
  /\ last.op = "CreateSSLContext"
  /\ last.result = "channel"
  /\ calls = 2
  /\ mgr[last.m].lastBuild = "true"
  /\ mgr[last.m].mode_ = "SERVER"
  /\ chan[last.handle].dir = "accept"

\* C10: on a manager on which no Init reached SSL_CTX_new (none was called, or
\* each failed on its protocol) CreateSSLContext returns NULL by the first return
\* and allocates nothing, and an Init that fails on its protocol allocates no
\* context.
C10_NullWithoutContext ==
  [][/\ (last'.op = "CreateSSLContext" /\ ~mgr[last'.m].resolved) =>
          /\ last'.result = "null_context"
          /\ last'.handle = NULL
          /\ chan' = chan
          /\ ctx' = ctx
     /\ (last'.op = "Init" /\ ~last'.resolved) =>
          /\ ctx' = ctx
          /\ mgr'[last'.m].context_ = mgr[last'.m].context_]_vars
C10_Witness ==
  /\ last.op = "CreateSSLContext"
  /\ last.result = "null_context"
  /\ mgr[last.m].lastBuild = "false"
  /\ ~mgr[last.m].resolved
  /\ \A h \in ChanIds : chan[h].state = "none"

\* ---------------------------------------------------------------- C11
\* C11: when the protocol is supported and SSL_CTX_new returned a context, Init
\* returns true exactly when (the certificate path is empty, or the certificate
\* loads and (the key path is empty, or the key loads and matches it)) and the
\* cipher list is accepted.  A certificate without a key succeeds, a key that
\* does not match fails, a matching key succeeds, an empty or unknown cipher
\* list fails.
C11_InitSucceedsExactlyWhenFilesAndCiphersAccepted ==
  (last.op = "Init" /\ last.resolved /\ last.allocated) =>
    LET a == last.trace.args
        files_ok == \/ a.cert = ""
                    \/ /\ CertLoads(a.cert)
                       /\ \/ a.key = ""
                          \/ KeyLoads(a.key) /\ KeyMatches(a.cert, a.key)
    IN  /\ last.result \in {"true", "false"}
        /\ (last.result = "true") <=> (files_ok /\ CiphersAccepted(a.ciphers))
        /\ (a.cert = "cert.pem" /\ a.key = "" /\ a.ciphers = "HIGH")
              => last.result = "true"
        /\ (a.cert = "cert.pem" /\ a.key = "other.key") => last.result = "false"
        /\ (a.cert = "cert.pem" /\ a.key = "cert.key" /\ a.ciphers = "HIGH")
              => last.result = "true"
        /\ a.ciphers \in {"", "bogus"} => last.result = "false"
\* An Init with a certificate and its matching key returned true.
C11_Witness ==
  /\ last.op = "Init" /\ last.allocated /\ last.result = "true"
  /\ last.trace.args.cert = "cert.pem" /\ last.trace.args.key = "cert.key"

\* ---------------------------------------------------------------- C12
\* C12: Init loads the key only directly after it loaded the certificate in the
\* same call: with an empty certificate path or a certificate that failed to
\* load the key is never loaded, and a key path without a certificate path
\* does not make Init fail.
C12_KeyOnlyAfterCertificate ==
  last.op = "Init" =>
    LET t == last.trace
        a == t.args
        keyAt == {i \in 1..Len(t.steps) : t.steps[i] \in {"key", "check"}}
    IN  /\ \A i \in keyAt :
              /\ a.cert # "" /\ CertLoads(a.cert)
              /\ \E j \in 1..(i - 1) : t.steps[j] = "cert"
              /\ \E k \in 1..Len(t.applied) : t.applied[k] = "cert"
        /\ (a.cert = "" \/ ~CertLoads(a.cert)) => keyAt = {}
        /\ (a.cert = "" /\ last.resolved /\ last.allocated)
              => ((last.result = "true") <=> CiphersAccepted(a.ciphers))
\* An Init with a key path and no certificate path returned true.
C12_Witness ==
  /\ last.op = "Init" /\ last.result = "true"
  /\ last.trace.args.cert = "" /\ last.trace.args.key = "cert.key"
  /\ \A i \in 1..Len(last.trace.steps) : last.trace.steps[i] # "key"

\* ---------------------------------------------------------------- C13
\* C13: when Init and Finish of two managers run unserialized, a state is
\* reached where the engine was bootstrapped twice with no free in between,
\* or instance_count_ is not the number of managers built and not torn down,
\* or the engine is freed while a built manager is not torn down; no such
\* state is reached by calls that do not overlap.
C13_BadStateOnlyByOverlap ==
  (\/ race.reboot
   \/ /\ Quiescent
      /\ \/ instance_count_ # Cardinality(race.open)
         \/ race.open # {} /\ ~engine.loaded)
  => race.overlapped
\* Both Inits bootstrapped the engine, the counter lost an increment, and one
\* Finish freed the engine while the other manager is built.
C13_Witness ==
  /\ Quiescent
  /\ race.reboot
  /\ instance_count_ # Cardinality(race.open)
  /\ race.open # {} /\ ~engine.loaded

\* ---------------------------------------------------------------- C14
\* C14: every Init, whatever it returns, leaves instance_count_ exactly one
\* greater than it found it, and the Finish that follows a failed Init on the
\* same manager takes that one off again.
C14_InitAlwaysCounts ==
  [][/\ last'.op = "Init" => instance_count_' = instance_count_ + 1
     /\ (/\ last.op = "Init" /\ last.result = "false"
         /\ last'.op = "Finish" /\ last'.m = last.m /\ last'.result = "void")
        => instance_count_' = instance_count_ - 1]_vars
\* A failed first Init was followed by Finish and the counter is back at 0.
C14_Witness ==
  /\ calls = 2
  /\ last.op = "Finish" /\ last.result = "void"
  /\ mgr[last.m].lastBuild = "false"
  /\ instance_count_ = 0

\* ---------------------------------------------------------------- C15
\* C15: Init runs its steps in the order protocol, allocation, certificate,
\* key, match check, cipher list, verify policy, and no step runs after a step
\* that failed.
C15_StepsInOrderNoneAfterFailure ==
  last.op = "Init" =>
    LET t == last.trace
        a == t.args
        order == <<"protocol", "alloc", "options", "cert", "key", "check",
                   "cipher", "verify">>
        Rank(step) == CHOOSE i \in 1..Len(order) : order[i] = step
        Failed(step) ==
          \/ step = "protocol" /\ ~last.resolved
          \/ step = "alloc" /\ ~last.allocated
          \/ step = "cert" /\ ~CertLoads(a.cert)
          \/ step = "key" /\ ~KeyLoads(a.key)
          \/ step = "check" /\ ~KeyMatches(a.cert, a.key)
          \/ step = "cipher" /\ ~CiphersAccepted(a.ciphers)
    IN  \A i \in 1..(Len(t.steps) - 1) :
          /\ Rank(t.steps[i]) < Rank(t.steps[i + 1])
          /\ ~Failed(t.steps[i])

\* ---------------------------------------------------------------- C16
\* C16: an Init that fails after SSL_CTX_new returned a context leaves that
\* context allocated, not freed and in the manager's context_, with everything
\* the steps before the failing one applied still on it.
C16_FailedInitKeepsContextAndConfig ==
  (last.op = "Init" /\ last.allocated /\ last.result = "false") =>
    LET c == mgr[last.m].context_
        t == last.trace
        ItemOf(step) == CASE step = "options" -> "no_sslv2"
                          [] step = "cert" -> "cert"
                          [] step = "key" -> "key"
                          [] step = "check" -> "checked"
                          [] OTHER -> "none"
    IN  /\ c # NULL
        /\ ctx[c].alloc /\ ctx[c].frees = 0
        /\ \A i \in 3..(Len(t.steps) - 1) :
              \E k \in 1..Len(ctx[c].applied) :
                ctx[c].applied[k] = ItemOf(t.steps[i])
\* Init failed at the match check; the certificate and the key are on the
\* context the manager still holds.
C16_Witness ==
  /\ last.op = "Init" /\ last.allocated /\ last.result = "false"
  /\ last.trace.steps[Len(last.trace.steps)] = "check"
  /\ mgr[last.m].context_ # NULL
  /\ \E j, k \in 1..Len(ctx[mgr[last.m].context_].applied) :
        /\ ctx[mgr[last.m].context_].applied[j] = "cert"
        /\ ctx[mgr[last.m].context_].applied[k] = "key"

\* ---------------------------------------------------------------- C17
\* C17: ReleaseSSLContext destroys the channel it is given and nothing else:
\* context_, mode_, instance_count_, the engine, every context and every other
\* channel are as before, and a CreateSSLContext that follows a release still
\* mints from the manager's context.
C17_ReleaseTouchesOnlyItsChannel ==
  [][/\ last'.op = "ReleaseSSLContext" =>
          /\ chan[last'.handle].state = "live"
          /\ chan'[last'.handle].state = "released"
          /\ \A x \in ChanIds \ {last'.handle} : chan'[x] = chan[x]
          /\ mgr' = mgr /\ ctx' = ctx
          /\ instance_count_' = instance_count_ /\ engine' = engine
     /\ (/\ last.op = "ReleaseSSLContext"
         /\ last'.op = "CreateSSLContext" /\ last'.result = "channel")
        => /\ chan'[last'.handle].state = "live"
           /\ chan'[last'.handle].ctx = mgr[last'.m].context_]_vars
\* A channel was released while a second channel of the same context is live,
\* and the context is still allocated and not freed.
C17_Witness ==
  /\ last.op = "ReleaseSSLContext"
  /\ \E x \in LiveChans :
        /\ chan[x].ctx = chan[last.handle].ctx
        /\ ~Freed(chan[x].ctx)
        /\ \E m \in Managers : mgr[m].context_ = chan[x].ctx

\* ---------------------------------------------------------------- C18
\* C18: with serialized calls the engine is loaded exactly while
\* instance_count_ >= 1; the bootstrap runs exactly in an Init that finds the
\* counter at 0, the free exactly in a Finish that takes it from 1 to 0, and
\* the bootstrap never runs twice without a free in between.
C18_EngineLoadedIffCounted ==
  [][/\ engine'.loaded <=> instance_count_' >= 1
     /\ engine'.bootstraps - engine'.frees = (IF engine'.loaded THEN 1 ELSE 0)
     /\ engine'.bootstraps # engine.bootstraps
          <=> (last'.op = "Init" /\ instance_count_ = 0)
     /\ engine'.bootstraps # engine.bootstraps
          => ~engine.loaded /\ engine'.bootstraps = engine.bootstraps + 1
     /\ engine'.frees # engine.frees
          <=> /\ last'.op = "Finish" /\ last'.result = "void"
              /\ instance_count_ = 1 /\ instance_count_' = 0
     /\ engine'.frees # engine.frees
          => engine.loaded /\ engine'.frees = engine.frees + 1]_vars
\* The engine was bootstrapped again by an Init after a complete teardown.
C18_Witness ==
  /\ last.op = "Init"
  /\ engine.bootstraps = 2 /\ engine.frees = 1
  /\ engine.loaded /\ instance_count_ = 1

\* ---------------------------------------------------------------- C19
\* C19: no context is leaked: every context that is allocated and was never
\* passed to SSL_CTX_free is the context_ of some manager, also after a second
\* Init on a manager that was not torn down in between.
C19_NoContextLeaked ==
  \A c \in CtxIds :
    (ctx[c].alloc /\ ctx[c].frees = 0)
      => \E m \in Managers : mgr[m].context_ = c

====
